---- MODULE Spec2Model ----
(***************************************************************************)
(* Model of coffee.py, the Streamlit dashboard "Global Coffee Health".     *)
(*                                                                         *)
(* The script is re-executed from top to bottom on every user interaction. *)
(* One action of the model is one interaction: the widget that changed     *)
(* takes its new value and the whole script runs again (Script).           *)
(*                                                                         *)
(* Numbers.  The CSV columns Coffee_Intake, Sleep_Hours, BMI, Heart_Rate   *)
(* and Physical_Activity_Hours hold one decimal; the model keeps them as   *)
(* integers in tenths (35 is 3.5).  A mean is kept exactly, as a fraction  *)
(* [num, den] in natural units; a value rounded to 2 decimals is an        *)
(* integer number of hundredths (333 is 3.33).                             *)
(***************************************************************************)
EXTENDS Integers, Sequences, FiniteSets, TLC

VARIABLES
    csv,            \* rows of synthetic_coffee_health_10000.csv (static file)
    cache,          \* st.cache_data's stored result of load_data, <<>> before the first call
    started,        \* the page has been requested and the script has run
    data,           \* the Dataset: module-level `data` of the current run
    countries,      \* sidebar multiselect value
    genders,        \* sidebar multiselect value
    age_range,      \* sidebar slider value <<lo, hi>>
    health_metric,  \* tab2 selectbox value, "unset" in a run that stopped before it
    habit,          \* tab4 selectbox value, "unset" in a run that stopped before it
    filtered_data,  \* the FilteredView of the current run (with its added columns)
    warning,        \* st.warning was shown in the current run (EmptyResult)
    computed,       \* the downstream stages the current run executed
    kpi,            \* tab1: the four metrics, in hundredths
    scatter_data,   \* tab2: one point per record
    data_list,      \* tab3: (name, value) pairs
    min_val,        \* tab3: visual-map lower bound (fraction)
    max_val,        \* tab3: visual-map upper bound (fraction)
    data_bar,       \* tab4: bars
    option_box,     \* tab4: boxplot groups
    option_line     \* tab5: age axis and the two series

vars == <<csv, cache, started, data, countries, genders, age_range, health_metric, habit,
          filtered_data, warning, computed, kpi, scatter_data, data_list,
          min_val, max_val, data_bar, option_box, option_line>>

-----------------------------------------------------------------------------
(* Bounds of the model *)

\* largest number of rows of the CSV file
MaxRecords == 3

-----------------------------------------------------------------------------
(* Input rows.  The file's rows are drawn, in file order, from this pool.  *)

Row(c, g, a, o, ci, sl, st, hr, bmi, sm, al, pa) ==
    [Country |-> c, Gender |-> g, Age |-> a, Occupation |-> o,
     Coffee_Intake |-> ci, Sleep_Hours |-> sl, Stress_Level |-> st,
     Heart_Rate |-> hr, BMI |-> bmi, Smoking |-> sm,
     Alcohol_Consumption |-> al, Physical_Activity_Hours |-> pa]

Pool == <<
    Row("US",          "Male",   25, "Office",     30, 70, "Low",    700, 220, 0, 0,  35),
    Row("US",          "Female", 45, "Healthcare", 50, 60, "Medium", 720, 241, 0, 1,  60),
    Row("UK",          "Male",   70, "Other",      10, 80, "High",   650, 263, 1, 0,   0),
    Row("US",          "Male",   45, "Office",     20, 65, "Low",    810, 250, 1, 1, 250),
    Row("South Korea", "Female", 45, "Student",     0, 75, "Medium", 680, 198, 0, 0,  20),
    Row("USA",         "Female", 20, "Student",     0, 90, "High",   750, 305, 0, 1,  45),
    Row("Brazil",      "Other",  30, "Service",    40, 55, "Low",    770, 232, 1, 0,  10)
>>

\* the country names of the pool in Python's string order (groupby sorts its keys)
CountryOrder == <<"Brazil", "South Korea", "UK", "US", "USA">>
GenderOrder == <<"Female", "Male", "Other">>
OccupationOrder == <<"Healthcare", "Office", "Other", "Service", "Student">>

\* the positions the age slider's handles are moved to.  The slider's own
\* ends (the least and the greatest age of the Dataset) are not applied: a
\* handle beyond an end selects the same records as the handle at that end.
AgeStops == {20, 60, 70}

-----------------------------------------------------------------------------
(* Sequence helpers *)

Range(s) == {s[i] : i \in DOMAIN s}

RECURSIVE SumOf(_, _)
SumOf(s, col) == IF s = <<>> THEN 0 ELSE s[1][col] + SumOf(Tail(s), col)

Column(s, col) == [i \in DOMAIN s |-> s[i][col]]

\* the subsequence of s at the positions in idx, in order
RECURSIVE Pick(_, _, _)
Pick(s, idx, i) ==
    IF i > Len(s) THEN <<>>
    ELSE (IF i \in idx THEN <<s[i]>> ELSE <<>>) \o Pick(s, idx, i + 1)

\* the elements of the set S that occur in the sequence order, in that order
InOrder(order, S) == SelectSeq(order, LAMBDA x : x \in S)

\* a finite set of integers as an ascending sequence
RECURSIVE Ascending(_)
Ascending(S) ==
    IF S = {} THEN <<>>
    ELSE LET m == CHOOSE x \in S : \A y \in S : x <= y
         IN  <<m>> \o Ascending(S \ {m})

-----------------------------------------------------------------------------
(* Fractions and rounding *)

Frac(n, d) == [num |-> n, den |-> d]
FracLe(p, q) == p.num * q.den <= q.num * p.den
FracEq(p, q) == p.num * q.den = q.num * p.den

\* round(x, 2) for x = q.num / q.den >= 0, in hundredths: nearest, ties to even
\* (on a binary float a tie may fall either way; the properties below do not
\* depend on the direction)
round2(q) ==
    LET a == q.num * 100
        f == a \div q.den
        r == a % q.den
    IN  IF 2 * r < q.den THEN f
        ELSE IF 2 * r > q.den THEN f + 1
        ELSE IF f % 2 = 0 THEN f ELSE f + 1

\* Series.mean() of a column held in units of 1/unit, over a non-empty frame
mean(df, col, unit) == Frac(SumOf(df, col), Len(df) * unit)

-----------------------------------------------------------------------------
(* Data frames: a frame is a sequence of rows, a row a record of columns *)

\* df[name] = value, row by row: the frame with the column added or replaced
AddCol(r, name, v) == [k \in DOMAIN r \cup {name} |-> IF k = name THEN v ELSE r[k]]

\* Series.unique()
unique(df, col) == Range(Column(df, col))

\* the columns the CSV file gives a row, and its index label
FileColumns == DOMAIN Pool[1] \cup {"index"}
Project(r) == [k \in FileColumns |-> r[k]]

\* pd.read_csv: every row gets its position as index label
read_csv(file) == [i \in DOMAIN file |-> AddCol(file[i], "index", i)]

\* load_data's body: read the file, keep the Male/Female rows
load_data(file) == SelectSeq(read_csv(file), LAMBDA r : r.Gender \in {"Male", "Female"})

\* @st.cache_data(ttl=600): what a call of load_data() can return.  While the
\* stored value is fresh the call returns it; when nothing is stored, or the
\* 600 s have passed since it was, the call runs the body again.
cached_load_data(store, file) ==
    (IF store # <<>> THEN {store} ELSE {}) \cup {load_data(file)}

\* mask with the upper age bound taken exclusive
mask_exclusive(r, c, g, ar) ==
    /\ r.Country \in c
    /\ r.Gender \in g
    /\ r.Age >= ar[1]
    /\ r.Age < ar[2]

\* the boolean mask of the filter, row by row
mask(r, c, g, ar) ==
    /\ r.Country \in c
    /\ r.Gender \in g
    /\ r.Age >= ar[1]
    /\ r.Age <= ar[2]

\* data[mask]: boolean indexing builds a new frame of the selected rows
filter(d, c, g, ar) == SelectSeq(d, LAMBDA r : mask(r, c, g, ar))

\* an emptiness test that is off by one
empty_off_by_one(df) == Len(df) <= 1

\* DataFrame.empty
empty(df) == Len(df) = 0

\* a stress ordinal that starts at 0
stress_mapping_from_zero == [Low |-> 0, Medium |-> 1, High |-> 2]

stress_mapping == [Low |-> 1, Medium |-> 2, High |-> 3]

\* a write that lands in the rows of `base` as well, as it would if the view
\* shared its rows with the frame it was selected from
setitem_shared(base, view, col, values) ==
    [base |-> [k \in DOMAIN base |->
                  IF \E i \in DOMAIN view : view[i].index = base[k].index
                  THEN AddCol(base[k], col,
                              values[CHOOSE i \in DOMAIN view : view[i].index = base[k].index])
                  ELSE base[k]],
     view |-> [i \in DOMAIN view |-> AddCol(view[i], col, values[i])]]

\* filtered_data[col] = ...: the write lands in the frame boolean indexing
\* built; `base`, the frame it was selected from, keeps its rows and columns
setitem(base, view, col, values) ==
    [base |-> base,
     view |-> [i \in DOMAIN view |-> AddCol(view[i], col, values[i])]]

-----------------------------------------------------------------------------
(* tab1: KPI *)

kpi_metrics(fd) ==
    [Coffee_Intake |-> round2(mean(fd, "Coffee_Intake", 10)),
     Sleep_Hours   |-> round2(mean(fd, "Sleep_Hours", 10)),
     Stress_Index  |-> round2(mean(fd, "Stress_Index", 1)),
     BMI           |-> round2(mean(fd, "BMI", 10))]

(* tab2: scatter; symbolSize max(5, Age/5) is kept in tenths *)

scatter(fd, hm) ==
    [i \in DOMAIN fd |->
        [value |-> <<fd[i].Coffee_Intake, fd[i][hm]>>,
         name |-> <<fd[i].Country, fd[i].Occupation>>,
         symbolSize |-> IF 2 * fd[i].Age > 50 THEN 2 * fd[i].Age ELSE 50,
         color |-> IF fd[i].Gender = "Male" THEN "#FF5722" ELSE "#2196F3"]]

(* tab3: map *)

\* groupby('Country')['Coffee_Intake'].mean().reset_index()
country_avg(fd) ==
    LET keys == InOrder(CountryOrder, unique(fd, "Country"))
    IN  [i \in DOMAIN keys |->
            [Country |-> keys[i],
             Coffee_Intake |->
                 mean(SelectSeq(fd, LAMBDA r : r.Country = keys[i]), "Coffee_Intake", 10)]]

\* a remap table with one alias missing
country_name_map_short(name) ==
    CASE name = "USA" -> "United States"
      [] name = "UK" -> "United Kingdom"
      [] OTHER -> name

\* country_name_map.get(name, name)
country_name_map(name) ==
    CASE name = "USA" -> "United States"
      [] name = "UK" -> "United Kingdom"
      [] name = "South Korea" -> "Korea, Rep."
      [] OTHER -> name

map_data_list(avg) ==
    [i \in DOMAIN avg |->
        <<country_name_map(avg[i].Country), round2(avg[i].Coffee_Intake)>>]

FracMin(s) == CHOOSE x \in Range(s) : \A y \in Range(s) : FracLe(x, y)
FracMax(s) == CHOOSE x \in Range(s) : \A y \in Range(s) : FracLe(y, x)

\* Python's `x or default`: x when it is truthy (non-zero), else the default
or_default(x, default) == IF x.num # 0 THEN x ELSE default

map_min_val(avg) == or_default(FracMin(Column(avg, "Coffee_Intake")), Frac(0, 1))
map_max_val(avg) == or_default(FracMax(Column(avg, "Coffee_Intake")), Frac(1, 1))

(* tab4: bars and boxplot *)

\* groupby(['Occupation','Gender'])['Coffee_Intake'].mean().reset_index()
occupation_avg(fd) ==
    LET keys == SelectSeq(
                    [k \in 1..(Len(OccupationOrder) * Len(GenderOrder)) |->
                        <<OccupationOrder[((k - 1) \div Len(GenderOrder)) + 1],
                          GenderOrder[((k - 1) % Len(GenderOrder)) + 1]>>],
                    LAMBDA key : \E i \in DOMAIN fd :
                        fd[i].Occupation = key[1] /\ fd[i].Gender = key[2])
    IN  [i \in DOMAIN keys |->
            [Occupation |-> keys[i][1], Gender |-> keys[i][2],
             Coffee_Intake |->
                 mean(SelectSeq(fd, LAMBDA r : r.Occupation = keys[i][1]
                                               /\ r.Gender = keys[i][2]),
                      "Coffee_Intake", 10)]]

bar_data(avg) ==
    [i \in DOMAIN avg |->
        [name |-> <<avg[i].Occupation, avg[i].Gender>>,
         value |-> round2(avg[i].Coffee_Intake)]]

\* the labels of pd.cut(..., bins=[0,2,4,6,24], labels=[...]), in category order
BinLabels == <<"0-2h", "2-4h", "4-6h", "6h+">>

\* pd.cut with its defaults right=True, include_lowest=False: the intervals are
\* (0,2], (2,4], (4,6], (6,24]; a value in none of them is NaN.  Hours in tenths.
cut(h) ==
    IF h > 0 /\ h <= 20 THEN "0-2h"
    ELSE IF h > 20 /\ h <= 40 THEN "2-4h"
    ELSE IF h > 40 /\ h <= 60 THEN "4-6h"
    ELSE IF h > 60 /\ h <= 240 THEN "6h+"
    ELSE "NaN"

\* the grouping column of the boxplot
x_var_of(hb) == IF hb = "Physical_Activity_Hours" THEN "Activity_Bins" ELSE hb

\* groupby([x_var,'Gender'])['Coffee_Intake'].apply(list).reset_index(): the
\* groups in key order, rows with a NaN key left out (dropna=True).  Only the
\* groups that hold a record are listed; a (bin, gender) pair without records
\* carries no coffee-intake value.
habits(fd, x_var) ==
    LET xs == IF x_var = "Activity_Bins"
              THEN InOrder(BinLabels, unique(fd, x_var))
              ELSE Ascending(unique(fd, x_var))
        gs == InOrder(GenderOrder, unique(fd, "Gender"))
        keys == SelectSeq(
                    [k \in 1..(Len(xs) * Len(gs)) |->
                        <<xs[((k - 1) \div Len(gs)) + 1], gs[((k - 1) % Len(gs)) + 1]>>],
                    LAMBDA key : \E i \in DOMAIN fd :
                        fd[i][x_var] = key[1] /\ fd[i].Gender = key[2])
    IN  [i \in DOMAIN keys |->
            [x |-> keys[i][1], Gender |-> keys[i][2],
             Coffee_Intake |->
                 Column(SelectSeq(fd, LAMBDA r : r[x_var] = keys[i][1]
                                                 /\ r.Gender = keys[i][2]),
                        "Coffee_Intake")]]

box_option(h) ==
    [xAxis |-> [i \in DOMAIN h |-> <<h[i].x, h[i].Gender>>],
     series |-> [i \in DOMAIN h |-> h[i].Coffee_Intake]]

(* tab5: trend *)

\* a trend whose groups are the ages up to each key instead of the key itself
age_trend_cumulative(fd) ==
    LET keys == Ascending(unique(fd, "Age"))
    IN  [i \in DOMAIN keys |->
            LET grp == SelectSeq(fd, LAMBDA r : r.Age <= keys[i])
            IN  [Age |-> keys[i],
                 Coffee_Intake |-> mean(grp, "Coffee_Intake", 10),
                 Sleep_Hours |-> mean(grp, "Sleep_Hours", 10)]]

\* groupby('Age')[['Coffee_Intake','Sleep_Hours']].mean().reset_index()
age_trend(fd) ==
    LET keys == Ascending(unique(fd, "Age"))
    IN  [i \in DOMAIN keys |->
            LET grp == SelectSeq(fd, LAMBDA r : r.Age = keys[i])
            IN  [Age |-> keys[i],
                 Coffee_Intake |-> mean(grp, "Coffee_Intake", 10),
                 Sleep_Hours |-> mean(grp, "Sleep_Hours", 10)]]

line_option(trend) ==
    [xAxis |-> Column(trend, "Age"),
     Coffee_Intake |-> [i \in DOMAIN trend |-> round2(trend[i].Coffee_Intake)],
     Sleep_Hours |-> [i \in DOMAIN trend |-> round2(trend[i].Sleep_Hours)]]

-----------------------------------------------------------------------------
(* One execution of the script *)

HealthMetrics == <<"Sleep_Hours", "Stress_Index", "Heart_Rate", "BMI">>
Habits == <<"Smoking", "Alcohol_Consumption", "Physical_Activity_Hours">>

Stages == {"stress", "kpi", "scatter", "map", "bar", "box", "trend"}

\* st.selectbox: the user's selection, or the first option when the widget was
\* not on the page in the previous run (its state is dropped with it)
selectbox(options, value) == IF value = "unset" THEN options[1] ELSE value

\* st.stop() after the warning: nothing below line 43 runs, the selectboxes
\* are not created and no chart is emitted
Stopped ==
    /\ warning' = TRUE
    /\ computed' = {}
    /\ health_metric' = "unset"
    /\ habit' = "unset"
    /\ kpi' = <<>>
    /\ scatter_data' = <<>>
    /\ data_list' = <<>>
    /\ min_val' = <<>>
    /\ max_val' = <<>>
    /\ data_bar' = <<>>
    /\ option_box' = <<>>
    /\ option_line' = <<>>

\* lines 45-193 on the non-empty view fd0 selected from the Dataset d
Rendered(d, fd0, hm, hb) ==
    \E w1 \in {setitem(d, fd0, "Stress_Index",
                       [i \in DOMAIN fd0 |-> stress_mapping[fd0[i].Stress_Level]])} :
    \E avg \in {country_avg(w1.view)} :
    \E w2 \in {IF hb = "Physical_Activity_Hours"
               THEN setitem(w1.base, w1.view, "Activity_Bins",
                            [i \in DOMAIN fd0 |-> cut(fd0[i].Physical_Activity_Hours)])
               ELSE w1} :
        /\ data' = w2.base
        /\ filtered_data' = w2.view
        /\ warning' = FALSE
        /\ computed' = Stages
        /\ health_metric' = hm
        /\ habit' = hb
        /\ kpi' = kpi_metrics(w1.view)
        /\ scatter_data' = scatter(w1.view, hm)
        /\ data_list' = map_data_list(avg)
        /\ min_val' = map_min_val(avg)
        /\ max_val' = map_max_val(avg)
        /\ data_bar' = bar_data(occupation_avg(w1.view))
        /\ option_box' = box_option(habits(w2.view, x_var_of(hb)))
        /\ option_line' = line_option(age_trend(w2.view))

\* the script from line 36 on, for the Dataset d and the widget values
Script(d, c, g, ar, hm, hb) ==
    \E fd0 \in {filter(d, c, g, ar)} :
        /\ cache' = d
        /\ started' = TRUE
        /\ countries' = c
        /\ genders' = g
        /\ age_range' = ar
        /\ IF empty(fd0)
           THEN data' = d /\ filtered_data' = fd0 /\ Stopped
           ELSE Rendered(d, fd0, hm, hb)
        /\ UNCHANGED csv

-----------------------------------------------------------------------------
(* Initial states: the process before the page is first requested *)

\* the files of at most MaxRecords rows that load to a non-empty Dataset
CsvFiles ==
    {f \in {Pick(Pool, idx, 1) : idx \in SUBSET DOMAIN Pool} :
        Len(f) <= MaxRecords /\ load_data(f) # <<>>}

Init ==
    /\ csv \in CsvFiles
    /\ cache = <<>>
    /\ started = FALSE
    /\ data = <<>>
    /\ countries = {}
    /\ genders = {}
    /\ age_range = <<20, 60>>
    /\ health_metric = "unset"
    /\ habit = "unset"
    /\ filtered_data = <<>>
    /\ warning = FALSE
    /\ computed = {}
    /\ kpi = <<>>
    /\ scatter_data = <<>>
    /\ data_list = <<>>
    /\ min_val = <<>>
    /\ max_val = <<>>
    /\ data_bar = <<>>
    /\ option_box = <<>>
    /\ option_line = <<>>

-----------------------------------------------------------------------------
(* User interactions *)

\* the page is opened: every widget is created with its default value
FirstRun ==
    /\ ~started
    /\ \E d \in cached_load_data(cache, csv) :
           Script(d, unique(d, "Country"), unique(d, "Gender"), <<20, 60>>,
                  selectbox(HealthMetrics, "unset"), selectbox(Habits, "unset"))

\* a multiselect after the user added or removed the option x
toggle(selected, x) == IF x \in selected THEN selected \ {x} ELSE selected \cup {x}

\* sidebar multiselect "选择国家": the options are the Dataset's countries;
\* adding or removing one of them reruns the script
SetCountries ==
    /\ started
    /\ \E d \in cached_load_data(cache, csv) :
       \E x \in unique(d, "Country") :
        Script(d, toggle(countries, x), genders, age_range,
               selectbox(HealthMetrics, health_metric), selectbox(Habits, habit))

\* sidebar multiselect "选择性别": the options are the Dataset's genders
SetGenders ==
    /\ started
    /\ \E d \in cached_load_data(cache, csv) :
       \E x \in unique(d, "Gender") :
        Script(d, countries, toggle(genders, x), age_range,
               selectbox(HealthMetrics, health_metric), selectbox(Habits, habit))

\* sidebar range slider "选择年龄范围": one handle is moved, and lo <= hi is kept
SetAgeRange ==
    /\ started
    /\ \E d \in cached_load_data(cache, csv) :
       \E lo \in AgeStops, hi \in AgeStops :
        /\ lo <= hi
        /\ (lo = age_range[1]) # (hi = age_range[2])
        /\ Script(d, countries, genders, <<lo, hi>>,
                  selectbox(HealthMetrics, health_metric), selectbox(Habits, habit))

\* tab2 selectbox "选择健康指标", on the page only in a run that got that far
SelectHealthMetric ==
    \E m \in Range(HealthMetrics) :
        /\ health_metric # "unset"
        /\ m # health_metric
        /\ \E d \in cached_load_data(cache, csv) :
               Script(d, countries, genders, age_range, m, habit)

\* tab4 selectbox "选择生活习惯指标", on the page only in a run that got that far
SelectHabit ==
    \E h \in Range(Habits) :
        /\ habit # "unset"
        /\ h # habit
        /\ \E d \in cached_load_data(cache, csv) :
               Script(d, countries, genders, age_range, health_metric, h)

Next ==
    \/ FirstRun
    \/ SetCountries
    \/ SetGenders
    \/ SetAgeRange
    \/ SelectHealthMetric
    \/ SelectHabit

Spec == Init /\ [][Next]_vars

-----------------------------------------------------------------------------
(* Vocabulary of the properties *)

\* the record r satisfies the current FilterCriteria
Passes(r) ==
    /\ r.Country \in countries
    /\ r.Gender \in genders
    /\ age_range[1] <= r.Age
    /\ r.Age <= age_range[2]

\* the records of the Dataset that satisfy the current FilterCriteria
Passing == SelectSeq(data, Passes)

\* the FilteredView without the columns a render added to it
ViewRecords == [i \in DOMAIN filtered_data |-> Project(filtered_data[i])]

\* the current run got past the empty-result guard
Shown == started /\ computed # {}

Abs(x) == IF x < 0 THEN -x ELSE x

\* v (hundredths) is exactly the mean sum/(n*unit)
IsMean(v, sum, n, unit) == v * n * unit = 100 * sum

\* v (hundredths) is the mean sum/(n*unit) rounded to 2 decimals
IsRoundedMean(v, sum, n, unit) == 2 * Abs(v * n * unit - 100 * sum) <= n * unit

StressOrdinal(r) ==
    CASE r.Stress_Level = "Low" -> 1
      [] r.Stress_Level = "Medium" -> 2
      [] r.Stress_Level = "High" -> 3

RECURSIVE StressSum(_)
StressSum(rows) ==
    IF rows = <<>> THEN 0 ELSE StressOrdinal(rows[1]) + StressSum(Tail(rows))

-----------------------------------------------------------------------------
(* C1 *)

\* C1: a record of the Dataset is in the FilteredView if and only if its
\* country is selected, its gender is selected and min <= age <= max; the
\* view holds records of the Dataset only, each at most once.
C1_FilterIff ==
    started =>
        /\ \A i \in DOMAIN data :
               (\E j \in DOMAIN filtered_data : ViewRecords[j] = data[i]) <=> Passes(data[i])
        /\ \A j \in DOMAIN filtered_data : \E i \in DOMAIN data : ViewRecords[j] = data[i]
        /\ \A j, k \in DOMAIN filtered_data :
               filtered_data[j].index = filtered_data[k].index => j = k

\* C1 witness: a view that keeps one record and leaves out three, one for its
\* country, one for its gender and one for its age
C1_Witness ==
    /\ started
    /\ Len(filtered_data) >= 1
    /\ \E i \in DOMAIN data : data[i].Country \notin countries
    /\ \E i \in DOMAIN data : data[i].Gender \notin genders
    /\ \E i \in DOMAIN data : data[i].Age > age_range[2] \/ data[i].Age < age_range[1]

-----------------------------------------------------------------------------
(* C2 *)

\* C2: when the FilteredView has no record the warning is shown and no
\* downstream stage is computed; when it has a record no warning is shown and
\* every downstream stage runs.
C2_EmptyGuard ==
    started =>
        /\ Len(Passing) = 0 => warning /\ computed = {}
        /\ Len(Passing) > 0 => ~warning /\ computed = Stages
        /\ Len(filtered_data) = Len(Passing)

\* C2 witness: the criteria select no country and the run stopped at the warning
C2_Witness == started /\ countries = {} /\ warning /\ computed = {}

\* C2 witness of the other branch: a view of one record, rendered in full
C2_OneRecord == started /\ Len(filtered_data) = 1 /\ ~warning /\ computed = Stages

-----------------------------------------------------------------------------
(* C3 *)

\* C3: with activity hours as the habit variable, a record with activity
\* hours 3.5 is in bin "2-4h" and a record with activity hours 6.0 is in bin
\* "6h+".
C3_Bins ==
    (Shown /\ habit = "Physical_Activity_Hours") =>
        \A i \in DOMAIN filtered_data :
            /\ filtered_data[i].Physical_Activity_Hours = 35
                   => filtered_data[i].Activity_Bins = "2-4h"
            /\ filtered_data[i].Physical_Activity_Hours = 60
                   => filtered_data[i].Activity_Bins = "6h+"

-----------------------------------------------------------------------------
(* C4 *)

\* the choropleth's name of a country, as the claim lists it
MapName(c) ==
    IF c = "USA" THEN "United States"
    ELSE IF c = "UK" THEN "United Kingdom"
    ELSE IF c = "South Korea" THEN "Korea, Rep."
    ELSE c

\* the records of the FilteredView of country c
OfCountry(c) == SelectSeq(Passing, LAMBDA r : r.Country = c)

\* data_list holds exactly one pair per distinct country of the view, under
\* the country's remapped name, whose value satisfies IsValue(value, sum, n)
\* for the sum and the number n of the country's coffee intakes
OnePairPerCountry(IsValue(_, _, _)) ==
    /\ Len(data_list) = Cardinality(unique(Passing, "Country"))
    /\ \A c \in unique(Passing, "Country") :
           \E i \in DOMAIN data_list :
               /\ data_list[i][1] = MapName(c)
               /\ IsValue(data_list[i][2], SumOf(OfCountry(c), "Coffee_Intake"),
                          Len(OfCountry(c)))
               /\ \A j \in DOMAIN data_list : data_list[j][1] = MapName(c) => j = i

\* C4 as stated: one (name, value) pair per distinct country of the view, the
\* value being the country's mean coffee intake and the name remapped by
\* USA -> United States, UK -> United Kingdom, South Korea -> Korea, Rep.,
\* identity otherwise.
C4_PairsExactMean ==
    Shown => OnePairPerCountry(LAMBDA v, sum, n : IsMean(v, sum, n, 10))

\* C4 amended: as C4, the value being the country's mean coffee intake
\* rounded to 2 decimals.
C4_PairsRoundedMean ==
    Shown => OnePairPerCountry(LAMBDA v, sum, n : IsRoundedMean(v, sum, n, 10))

\* C4 witness: a view of three countries, all three of them aliases, emitted
\* under their remapped names with their mean coffee intakes 0.0, 1.0 and 0.0
C4_Witness ==
    /\ Shown
    /\ Range(data_list)
           = {<<"Korea, Rep.", 0>>, <<"United Kingdom", 100>>, <<"United States", 0>>}

\* C4 witness of the identity and of the rounding: the unmapped name US, with
\* three records whose mean coffee intake 10.0 / 3 is emitted as 3.33
C4_RoundingWitness ==
    /\ Shown
    /\ \E i \in DOMAIN data_list : data_list[i] = <<"US", 333>>

-----------------------------------------------------------------------------
(* C5 *)

\* the per-country mean coffee intake observed in the FilteredView
ObservedMeans ==
    {Frac(SumOf(SelectSeq(Passing, LAMBDA r : r.Country = c), "Coffee_Intake"),
          10 * Len(SelectSeq(Passing, LAMBDA r : r.Country = c)))
        : c \in unique(Passing, "Country")}

\* C5: for every non-empty FilteredView the color-scale bounds are the
\* observed minimum and the observed maximum of the per-country mean coffee
\* intake, also when that minimum or maximum is 0.
C5_ObservedBounds ==
    Shown =>
        /\ \E m \in ObservedMeans :
               (\A y \in ObservedMeans : FracLe(m, y)) /\ FracEq(min_val, m)
        /\ \E m \in ObservedMeans :
               (\A y \in ObservedMeans : FracLe(y, m)) /\ FracEq(max_val, m)

-----------------------------------------------------------------------------
(* C6 *)

OfAge(a) == SelectSeq(Passing, LAMBDA r : r.Age = a)

\* the trend chart has one x entry per distinct age of the view, ascending,
\* and two series of that length whose i-th entries satisfy IsValue for the
\* records of the i-th age
TrendSeries(IsValue(_, _, _)) ==
    LET ages == option_line.xAxis
    IN  /\ Len(ages) = Cardinality(unique(Passing, "Age"))
        /\ Len(option_line.Coffee_Intake) = Len(ages)
        /\ Len(option_line.Sleep_Hours) = Len(ages)
        /\ Range(ages) = unique(Passing, "Age")
        /\ \A i, j \in DOMAIN ages : i < j => ages[i] < ages[j]
        /\ \A i \in DOMAIN ages :
               /\ IsValue(option_line.Coffee_Intake[i],
                          SumOf(OfAge(ages[i]), "Coffee_Intake"), Len(OfAge(ages[i])))
               /\ IsValue(option_line.Sleep_Hours[i],
                          SumOf(OfAge(ages[i]), "Sleep_Hours"), Len(OfAge(ages[i])))

\* C6 as stated: the age list and both series have one entry per distinct age
\* of the view, ages strictly ascending, the i-th entry of each series being
\* the mean over exactly the records of the i-th age.
C6_TrendExactMean ==
    Shown => TrendSeries(LAMBDA v, sum, n : IsMean(v, sum, n, 10))

\* C6 amended: as C6, the i-th entry of each series being the mean over
\* exactly the records of the i-th age, rounded to 2 decimals.
C6_TrendRoundedMean ==
    Shown => TrendSeries(LAMBDA v, sum, n : IsRoundedMean(v, sum, n, 10))

\* C6 witness: the view holds two records of age 45 followed by one of age
\* 20; the chart lists 20 before 45, with the means 0.0 and 3.5 cups and 9.0
\* and 6.25 hours
C6_Witness ==
    /\ Shown
    /\ Column(filtered_data, "Age") = <<45, 45, 20>>
    /\ option_line.xAxis = <<20, 45>>
    /\ option_line.Coffee_Intake = <<0, 350>>
    /\ option_line.Sleep_Hours = <<900, 625>>

\* C6 witness of the rounding: three records of age 45, whose mean coffee
\* intake 7.0 / 3 is emitted as 2.33
C6_RoundingWitness ==
    /\ Shown
    /\ option_line.xAxis = <<45>>
    /\ option_line.Coffee_Intake = <<233>>

-----------------------------------------------------------------------------
(* C7 *)

\* the four KPIs satisfy IsValue for their field over the records of the view
KpiOverView(IsValue(_, _, _, _)) ==
    /\ IsValue(kpi.Coffee_Intake, SumOf(Passing, "Coffee_Intake"), Len(Passing), 10)
    /\ IsValue(kpi.Sleep_Hours, SumOf(Passing, "Sleep_Hours"), Len(Passing), 10)
    /\ IsValue(kpi.Stress_Index, StressSum(Passing), Len(Passing), 1)
    /\ IsValue(kpi.BMI, SumOf(Passing, "BMI"), Len(Passing), 10)

\* the Dataset of the scenario: (US,Male,25,3), (US,Female,45,5), (UK,Male,70,1)
ScenarioFile == <<Pool[1], Pool[2], Pool[3]>>

\* the scenario's criteria: every country, every gender, ages 20..60
InScenario ==
    /\ started
    /\ csv = ScenarioFile
    /\ countries = {"US", "UK"}
    /\ genders = {"Male", "Female"}
    /\ age_range = <<20, 60>>

\* in the scenario the 70-year-old is excluded and the KPI is 4.0
ScenarioHolds ==
    InScenario =>
        /\ \A i \in DOMAIN filtered_data : filtered_data[i].Age # 70
        /\ Len(filtered_data) = 2
        /\ kpi.Coffee_Intake = 400

\* C7 as stated: each KPI (coffee intake, sleep hours, stress ordinal with
\* Low=1/Medium=2/High=3, BMI) is the arithmetic mean of its field over
\* exactly the records of the view; in the scenario the 70-year-old is
\* excluded and the KPI mean coffee intake is 4.0.
C7_KpiExactMean ==
    /\ Shown => KpiOverView(IsMean)
    /\ ScenarioHolds

\* C7 amended: as C7, each KPI being that arithmetic mean rounded to 2
\* decimals.
C7_KpiRoundedMean ==
    /\ Shown => KpiOverView(IsRoundedMean)
    /\ ScenarioHolds

\* C7 witness: the scenario, with KPI 4.0
C7_Witness == InScenario /\ Shown /\ kpi.Coffee_Intake = 400

\* C7 witness of the rounding: three records in view, two of stress Low and
\* one Medium, mean stress ordinal 4 / 3 shown as 1.33
C7_RoundingWitness ==
    /\ Shown
    /\ Len(filtered_data) = 3
    /\ kpi.Stress_Index = 133

-----------------------------------------------------------------------------
(* C8 *)

\* the view every chart of the current run is built from is the filter of the
\* Dataset under the current criteria
ViewIsFilter == started => ViewRecords = Passing

\* C8: once loaded, the Dataset is never changed by an interaction (nor by
\* the columns a render writes, nor by a reload after the cache expired), and
\* after every
\* interaction the FilteredView is the filter of the Dataset under the
\* criteria of that interaction alone.
C8_DatasetImmutable ==
    [][(started => data' = data /\ data' = load_data(csv)) /\ ViewIsFilter']_vars

\* C8 witness: after several interactions, with both written columns in the
\* view, a metric and a habit selected, a criterion of each kind changed from
\* its default, the view a proper part of the Dataset and the Dataset still
\* the loaded file
C8_Witness ==
    /\ Shown
    /\ countries # unique(data, "Country")
    /\ genders # unique(data, "Gender")
    /\ age_range = <<20, 70>>
    /\ habit = "Physical_Activity_Hours"
    /\ health_metric = "Stress_Index"
    /\ Len(filtered_data) < Len(data)
    /\ \A i \in DOMAIN filtered_data :
           {"Stress_Index", "Activity_Bins"} \subseteq DOMAIN filtered_data[i]
    /\ data = load_data(csv)

-----------------------------------------------------------------------------
(* C9 *)

RECURSIVE TotalLen(_)
TotalLen(lists) == IF lists = <<>> THEN 0 ELSE Len(lists[1]) + TotalLen(Tail(lists))

\* C9: for every habit variable the boxplot groups partition the view: the
\* groups are pairwise distinct (habit value or bin, gender) keys and the
\* number of coffee-intake values over all groups is the number of records of
\* the FilteredView, so no record is dropped by binning.
C9_Partition ==
    Shown =>
        /\ TotalLen(option_box.series) = Len(filtered_data)
        /\ \A i, j \in DOMAIN option_box.xAxis :
               option_box.xAxis[i] = option_box.xAxis[j] => i = j

-----------------------------------------------------------------------------
(* C10 *)

\* C10: for every non-empty FilteredView the emitted bounds satisfy
\* min <= max and every emitted value lies in [min, max].
C10_ValuesWithinBounds ==
    Shown =>
        /\ FracLe(min_val, max_val)
        /\ \A i \in DOMAIN data_list :
               /\ FracLe(min_val, Frac(data_list[i][2], 100))
               /\ FracLe(Frac(data_list[i][2], 100), max_val)

====
